---- MODULE Spec2Model ----
(***************************************************************************)
(* ckcore File (POSIX back-end, src/src/linux/file.cc) over a small model  *)
(* of the operating system: a directory of paths, inodes with contents,    *)
(* and a descriptor table with per-descriptor position and access mode.    *)
(***************************************************************************)
EXTENDS Integers, Sequences, FiniteSets, TLC

\* ---------------------------------------------------------------- bounds
MaxFd == 2      \* descriptors the process may hold (RLIMIT_NOFILE)
MaxIno == 2     \* inodes the filesystem can hold
MaxLen == 1     \* largest file length and file position explored under Spec
MaxByte == 2    \* byte values 1..MaxByte are written; 0 fills holes
MaxBuf == 3     \* longest buffer of the round trip
MaxCalls == 5   \* calls in a run of the two Files

Paths == {"p1", "p2"}
Files == {"f1", "f2"}
Fds == 1..MaxFd
Inos == 1..MaxIno
Bytes == 1..MaxByte
Modes == {"READ", "WRITE"}
Whences == {"BEGIN", "CURRENT", "END"}

NoHandle == -1
NoIno == 0
Dead == "dead"
ClosedFd == [open |-> FALSE, ino |-> NoIno, pos |-> 0, mode |-> "READ", owner |-> Dead]

VARIABLES
    dir,           \* path -> inode or NoIno            (the directory)
    data,          \* inode -> sequence of bytes        (file contents)
    fdt,           \* descriptor -> open file description, or ClosedFd
    file_handle_,  \* File -> descriptor or -1
    file_path_,    \* File -> path
    alive,         \* File -> constructed and not yet destructed
    holds,         \* history: File -> a handle was acquired and no Close() returned true since
    hist,          \* history: File -> what the caller has seen since its last open() call
    last,          \* the call made last and what it returned
    pc             \* position of the scripted caller (round trip)

vars == <<dir, data, fdt, file_handle_, file_path_, alive, holds, hist, last, pc>>

\* The program-and-OS state the handlers transform.
\* sys collects the OS calls a handler makes, in order, with their success.
St == [dir |-> dir, data |-> data, fdt |-> fdt, h |-> file_handle_, p |-> file_path_,
       holds |-> holds, sys |-> <<>>]

Min(S) == CHOOSE x \in S : \A y \in S : x <= y

RECURSIVE Zeros(_)
Zeros(n) == IF n <= 0 THEN <<>> ELSE <<0>> \o Zeros(n - 1)

\* ------------------------------------------------------------ OS model
\* Each OS call maps a state to [s |-> the state after, ret |-> its result].

\* the outcomes of one close(2) call: Linux releases the descriptor also when
\* it reports an error (EIO, EINTR)
CloseOutcomes == {"ok", "fail_released"}

Log(s, call, ok) == [s EXCEPT !.sys = Append(@, [call |-> call, ok |-> ok])]

IsOpen(s, fd) == fd \in Fds /\ s.fdt[fd].open

Referenced(s, i) ==
    \/ \E q \in Paths : s.dir[q] = i
    \/ \E fd \in Fds : s.fdt[fd].open /\ s.fdt[fd].ino = i

\* an inode with no link and no open descriptor is freed (POSIX link count)
Gc(s) == [s EXCEPT !.data = [i \in Inos |-> IF Referenced(s, i) THEN s.data[i] ELSE <<>>]]

FreeFds(s) == {fd \in Fds : ~s.fdt[fd].open}
FreeInos(s) == {i \in Inos : ~Referenced(s, i)}

Description(i, mode, who) == [open |-> TRUE, ino |-> i, pos |-> 0, mode |-> mode, owner |-> who]

\* open(2) whose write mode also carries O_TRUNC
SysOpen_Truncates(s, path, mode, who, denied) ==
    IF denied \/ FreeFds(s) = {} THEN [s |-> Log(s, "open", FALSE), ret |-> -1]
    ELSE LET fd == Min(FreeFds(s)) IN
         IF s.dir[path] # NoIno
         THEN [s |-> Log([s EXCEPT !.fdt[fd] = Description(s.dir[path], mode, who),
                                   !.data[s.dir[path]] = IF mode = "WRITE" THEN <<>> ELSE @],
                         "open", TRUE),
               ret |-> fd]
         ELSE IF mode = "READ" \/ FreeInos(s) = {} THEN [s |-> Log(s, "open", FALSE), ret |-> -1]
         ELSE LET i == Min(FreeInos(s)) IN
              [s |-> Log([s EXCEPT !.dir[path] = i, !.data[i] = <<>>,
                                   !.fdt[fd] = Description(i, mode, who)], "open", TRUE),
               ret |-> fd]

\* open(2) with O_RDONLY, or with O_CREAT | O_WRONLY (no O_TRUNC); the lowest
\* free descriptor is returned. denied: EACCES and the like.
SysOpen(s, path, mode, who, denied) ==
    IF denied \/ FreeFds(s) = {} THEN [s |-> Log(s, "open", FALSE), ret |-> -1]
    ELSE LET fd == Min(FreeFds(s)) IN
         IF s.dir[path] # NoIno
         THEN [s |-> Log([s EXCEPT !.fdt[fd] = Description(s.dir[path], mode, who)], "open", TRUE),
               ret |-> fd]
         ELSE IF mode = "READ" \/ FreeInos(s) = {} THEN [s |-> Log(s, "open", FALSE), ret |-> -1]
         ELSE LET i == Min(FreeInos(s)) IN
              [s |-> Log([s EXCEPT !.dir[path] = i, !.data[i] = <<>>,
                                   !.fdt[fd] = Description(i, mode, who)], "open", TRUE),
               ret |-> fd]

\* close(2)
SysClose(s, fd, c) ==
    IF ~IsOpen(s, fd) THEN [s |-> Log(s, "close", FALSE), ret |-> -1]
    ELSE [s |-> Log(Gc([s EXCEPT !.fdt[fd] = ClosedFd]), "close", c = "ok"),
          ret |-> IF c = "ok" THEN 0 ELSE -1]

\* lseek(2)
SysLseek(s, fd, distance, whence) ==
    IF ~IsOpen(s, fd) THEN [s |-> Log(s, "lseek", FALSE), ret |-> -1]
    ELSE LET base == CASE whence = "BEGIN" -> 0
                       [] whence = "CURRENT" -> s.fdt[fd].pos
                       [] whence = "END" -> Len(s.data[s.fdt[fd].ino])
             np == base + distance
         IN IF np < 0 THEN [s |-> Log(s, "lseek", FALSE), ret |-> -1]
            ELSE [s |-> Log([s EXCEPT !.fdt[fd].pos = np], "lseek", TRUE), ret |-> np]

\* read(2): k is how many bytes the OS is willing to transfer (-1: error)
SysRead(s, fd, count, k) ==
    IF ~IsOpen(s, fd) \/ s.fdt[fd].mode # "READ" \/ k = -1
    THEN [s |-> Log(s, "read", FALSE), ret |-> -1, buf |-> <<>>]
    ELSE LET pos == s.fdt[fd].pos
             len == Len(s.data[s.fdt[fd].ino])
             avail == IF len > pos THEN len - pos ELSE 0
             n == Min({count, k, avail})
         IN [s |-> Log([s EXCEPT !.fdt[fd].pos = pos + n], "read", TRUE), ret |-> n,
             buf |-> SubSeq(s.data[s.fdt[fd].ino], pos + 1, pos + n)]

\* write(2): k is how many bytes the OS accepts (-1: error); a write past the
\* end of the file fills the gap with zero bytes
SysWrite(s, fd, buffer, count, k) ==
    IF ~IsOpen(s, fd) \/ s.fdt[fd].mode # "WRITE" \/ k = -1
    THEN [s |-> Log(s, "write", FALSE), ret |-> -1]
    ELSE LET pos == s.fdt[fd].pos
             i == s.fdt[fd].ino
             old == s.data[i]
             n == Min({count, k})
             padded == IF pos > Len(old) THEN old \o Zeros(pos - Len(old)) ELSE old
             new == SubSeq(padded, 1, pos) \o SubSeq(buffer, 1, n)
                        \o SubSeq(old, pos + n + 1, Len(old))
         IN [s |-> Log([s EXCEPT !.data[i] = IF n = 0 THEN old ELSE new,
                                 !.fdt[fd].pos = pos + n], "write", TRUE),
             ret |-> n]

\* stat(2) and fstat(2)
SysStat(s, path) ==
    [s |-> Log(s, "stat", s.dir[path] # NoIno), ret |-> IF s.dir[path] # NoIno THEN 0 ELSE -1]

SysFstat(s, fd) ==
    [s |-> Log(s, "fstat", IsOpen(s, fd)), ret |-> IF IsOpen(s, fd) THEN 0 ELSE -1]

\* unlink(2)
SysUnlink(s, path) ==
    IF s.dir[path] = NoIno THEN [s |-> Log(s, "unlink", FALSE), ret |-> -1]
    ELSE [s |-> Log(Gc([s EXCEPT !.dir[path] = NoIno]), "unlink", TRUE), ret |-> 0]

\* rename(2): replaces an existing target
SysRename(s, old, new) ==
    IF s.dir[old] = NoIno THEN [s |-> Log(s, "rename", FALSE), ret |-> -1]
    ELSE IF old = new THEN [s |-> Log(s, "rename", TRUE), ret |-> 0]
    ELSE [s |-> Log(Gc([s EXCEPT !.dir[new] = s.dir[old], !.dir[old] = NoIno]), "rename", TRUE),
          ret |-> 0]

\* access(2) with R_OK or W_OK; permitted: the file's permission bits allow
\* the mode to the calling user
SysAccess(s, path, mode, permitted) ==
    LET ok == s.dir[path] # NoIno /\ permitted
    IN [s |-> Log(s, "access", ok), ret |-> IF ok THEN 0 ELSE -1]

\* --------------------------------------------------------- File handlers
\* Each handler maps a state to [s |-> the state after, ret |-> what it returns].

\* File::Close that forgets file_handle_ = -1 after a successful close
Close_KeepsHandle(s, f, c) ==
    IF s.h[f] = NoHandle THEN [s |-> s, ret |-> FALSE]
    ELSE LET r == SysClose(s, s.h[f], c) IN
         IF r.ret = 0
         THEN [s |-> [r.s EXCEPT !.holds[f] = FALSE], ret |-> TRUE]
         ELSE [s |-> r.s, ret |-> FALSE]

\* File::Close that does not look at what close(2) returned
Close_IgnoresResult(s, f, c) ==
    IF s.h[f] = NoHandle THEN [s |-> s, ret |-> FALSE]
    ELSE LET r == SysClose(s, s.h[f], c) IN
         [s |-> [r.s EXCEPT !.h[f] = NoHandle, !.holds[f] = FALSE], ret |-> TRUE]

\* File::Close
Close(s, f, c) ==
    IF s.h[f] = NoHandle THEN [s |-> s, ret |-> FALSE]
    ELSE LET r == SysClose(s, s.h[f], c) IN
         IF r.ret = 0
         THEN [s |-> [r.s EXCEPT !.h[f] = NoHandle, !.holds[f] = FALSE], ret |-> TRUE]
         ELSE [s |-> r.s, ret |-> FALSE]

\* File::Open that acquires the new handle without closing the one it holds
Open_NoClose(s, f, file_mode, c, denied) ==
    LET r == SysOpen(s, s.p[f], file_mode, f, denied)
    IN [s |-> [r.s EXCEPT !.h[f] = r.ret, !.holds[f] = IF r.ret # -1 THEN TRUE ELSE @],
        ret |-> r.ret # -1]

\* File::Open that goes on to open(2) although its Close() failed
Open_IgnoresCloseFailure(s, f, file_mode, c, denied) ==
    LET s1 == Close(s, f, c).s
        r == SysOpen(s1, s1.p[f], file_mode, f, denied)
    IN [s |-> [r.s EXCEPT !.h[f] = r.ret, !.holds[f] = IF r.ret # -1 THEN TRUE ELSE @],
        ret |-> r.ret # -1]

\* File::Open that puts the prior handle back when open(2) fails
Open_KeepsPriorHandle(s, f, file_mode, c, denied) ==
    LET cl == Close(s, f, c) IN
    IF s.h[f] # NoHandle /\ ~cl.ret THEN [s |-> cl.s, ret |-> FALSE]
    ELSE LET s1 == IF s.h[f] # NoHandle THEN cl.s ELSE s
             r == SysOpen(s1, s1.p[f], file_mode, f, denied)
         IN [s |-> [r.s EXCEPT !.h[f] = IF r.ret = -1 THEN s.h[f] ELSE r.ret,
                               !.holds[f] = IF r.ret # -1 THEN TRUE ELSE @],
             ret |-> r.ret # -1]

\* File::Open
Open(s, f, file_mode, c, denied) ==
    LET cl == Close(s, f, c) IN
    IF s.h[f] # NoHandle /\ ~cl.ret THEN [s |-> cl.s, ret |-> FALSE]
    ELSE LET s1 == IF s.h[f] # NoHandle THEN cl.s ELSE s
             r == SysOpen(s1, s1.p[f], file_mode, f, denied)
         IN [s |-> [r.s EXCEPT !.h[f] = r.ret, !.holds[f] = IF r.ret # -1 THEN TRUE ELSE @],
             ret |-> r.ret # -1]

\* File::Test
Test(s, f) == s.h[f] # NoHandle

\* File::Seek with the origins of ckFILE_CURRENT and ckFILE_BEGIN exchanged
Seek_SwapsWhence(s, f, distance, whence) ==
    IF s.h[f] = NoHandle THEN [s |-> s, ret |-> -1]
    ELSE IF whence = "CURRENT" THEN SysLseek(s, s.h[f], distance, "BEGIN")
    ELSE IF whence = "BEGIN" THEN SysLseek(s, s.h[f], distance, "CURRENT")
    ELSE IF whence = "END" THEN SysLseek(s, s.h[f], distance, "END")
    ELSE [s |-> s, ret |-> -1]

\* File::Seek
Seek(s, f, distance, whence) ==
    IF s.h[f] = NoHandle THEN [s |-> s, ret |-> -1]
    ELSE IF whence \in Whences THEN SysLseek(s, s.h[f], distance, whence)
    ELSE [s |-> s, ret |-> -1]

\* File::Tell that seeks from the beginning of the file
Tell_FromBegin(s, f) ==
    IF s.h[f] = NoHandle THEN [s |-> s, ret |-> -1]
    ELSE SysLseek(s, s.h[f], 0, "BEGIN")

\* File::Tell
Tell(s, f) ==
    IF s.h[f] = NoHandle THEN [s |-> s, ret |-> -1]
    ELSE SysLseek(s, s.h[f], 0, "CURRENT")

\* File::Read that reports the requested count instead of what read(2) returned
Read_ReturnsCount(s, f, count, k) ==
    IF s.h[f] = NoHandle THEN [s |-> s, ret |-> -1, buf |-> <<>>]
    ELSE LET r == SysRead(s, s.h[f], count, k) IN
         [r EXCEPT !.ret = IF r.ret = -1 THEN -1 ELSE count]

\* File::Read
Read(s, f, count, k) ==
    IF s.h[f] = NoHandle THEN [s |-> s, ret |-> -1, buf |-> <<>>]
    ELSE SysRead(s, s.h[f], count, k)

\* File::Write without the check for an absent handle
Write_NoGuard(s, f, buffer, count, k) == SysWrite(s, s.h[f], buffer, count, k)

\* File::Write
Write(s, f, buffer, count, k) ==
    IF s.h[f] = NoHandle THEN [s |-> s, ret |-> -1]
    ELSE SysWrite(s, s.h[f], buffer, count, k)

\* File::Exist (static)
ExistPath(s, file_path) ==
    LET r == SysStat(s, file_path) IN [s |-> r.s, ret |-> r.ret = 0]

\* File::Exist that always asks for the path
Exist_ByPath(s, f) == ExistPath(s, s.p[f])

\* File::Exist
Exist(s, f) ==
    IF s.h[f] # NoHandle
    THEN LET r == SysFstat(s, s.h[f]) IN [s |-> r.s, ret |-> r.ret = 0]
    ELSE ExistPath(s, s.p[f])

\* File::Remove that gives up when its Close() fails on a held handle
Remove_AbortsOnCloseFailure(s, f, c) ==
    LET cl == Close(s, f, c) IN
    IF s.h[f] # NoHandle /\ ~cl.ret THEN [s |-> cl.s, ret |-> FALSE]
    ELSE LET r == SysUnlink(cl.s, cl.s.p[f]) IN [s |-> r.s, ret |-> r.ret = 0]

\* File::Remove
Remove(s, f, c) ==
    LET s1 == Close(s, f, c).s
        r == SysUnlink(s1, s1.p[f])
    IN [s |-> r.s, ret |-> r.ret = 0]

\* File::Rename without the Exist(new_file_path) check
Rename_NoExistCheck(s, f, new_file_path, c) ==
    LET s1 == Close(s, f, c).s
        r == SysRename(s1, s1.p[f], new_file_path)
    IN IF r.ret = 0
       THEN [s |-> [r.s EXCEPT !.p[f] = new_file_path], ret |-> TRUE]
       ELSE [s |-> r.s, ret |-> FALSE]

\* File::Rename that stores the new path before it knows rename(2) succeeded
Rename_SetsPathAlways(s, f, new_file_path, c) ==
    LET e == ExistPath(s, new_file_path) IN
    IF e.ret THEN [s |-> e.s, ret |-> FALSE]
    ELSE LET s1 == Close(e.s, f, c).s
             r == SysRename(s1, s1.p[f], new_file_path)
         IN [s |-> [r.s EXCEPT !.p[f] = new_file_path], ret |-> r.ret = 0]

\* File::Rename
Rename(s, f, new_file_path, c) ==
    LET e == ExistPath(s, new_file_path) IN
    IF e.ret THEN [s |-> e.s, ret |-> FALSE]
    ELSE LET s1 == Close(e.s, f, c).s
             r == SysRename(s1, s1.p[f], new_file_path)
         IN IF r.ret = 0
            THEN [s |-> [r.s EXCEPT !.p[f] = new_file_path], ret |-> TRUE]
            ELSE [s |-> r.s, ret |-> FALSE]

\* File::Size (static)
SizePath(s, file_path) ==
    LET r == SysStat(s, file_path) IN
    [s |-> r.s, ret |-> IF r.ret = -1 THEN -1 ELSE Len(s.data[s.dir[file_path]])]

\* File::Size that does not seek back to the saved position
Size_NoRestore(s, f) ==
    IF s.h[f] = NoHandle THEN SizePath(s, s.p[f])
    ELSE LET cur_pos == Tell(s, f)
             size == Seek(cur_pos.s, f, 0, "END")
         IN [s |-> size.s, ret |-> size.ret]

\* File::Size
Size(s, f) ==
    IF s.h[f] = NoHandle THEN SizePath(s, s.p[f])
    ELSE LET cur_pos == Tell(s, f)
             size == Seek(cur_pos.s, f, 0, "END")
             back == Seek(size.s, f, cur_pos.ret, "BEGIN")
         IN [s |-> back.s, ret |-> size.ret]

\* File::Remove (static)
RemovePath(s, file_path) ==
    LET r == SysUnlink(s, file_path) IN [s |-> r.s, ret |-> r.ret = 0]

\* File::Rename (static)
RenamePath(s, old_file_path, new_file_path) ==
    LET e == ExistPath(s, new_file_path) IN
    IF e.ret THEN [s |-> e.s, ret |-> FALSE]
    ELSE LET r == SysRename(e.s, old_file_path, new_file_path) IN [s |-> r.s, ret |-> r.ret = 0]

\* File::Time (static); the three time stamps are those of the inode stat(2)
\* finds (ino stands for them); lt: every localtime_r conversion succeeds
TimePath(s, file_path, lt) ==
    LET r == SysStat(s, file_path) IN
    IF r.ret = -1 THEN [s |-> r.s, ret |-> FALSE, ino |-> NoIno]
    ELSE IF ~lt THEN [s |-> r.s, ret |-> FALSE, ino |-> NoIno]
    ELSE [s |-> r.s, ret |-> TRUE, ino |-> s.dir[file_path]]

\* File::Time that asks the descriptor only
Time_HandleOnly(s, f, lt) ==
    LET r == SysFstat(s, s.h[f]) IN
    IF r.ret = -1 THEN [s |-> r.s, ret |-> FALSE, ino |-> NoIno]
    ELSE IF ~lt THEN [s |-> r.s, ret |-> FALSE, ino |-> NoIno]
    ELSE [s |-> r.s, ret |-> TRUE, ino |-> s.fdt[s.h[f]].ino]

\* File::Time
Time(s, f, lt) ==
    IF s.h[f] # NoHandle
    THEN LET r == SysFstat(s, s.h[f]) IN
         IF r.ret = -1 THEN [s |-> r.s, ret |-> FALSE, ino |-> NoIno]
         ELSE IF ~lt THEN [s |-> r.s, ret |-> FALSE, ino |-> NoIno]
         ELSE [s |-> r.s, ret |-> TRUE, ino |-> s.fdt[s.h[f]].ino]
    ELSE TimePath(s, s.p[f], lt)

\* File::Access (static)
AccessPath(s, file_path, file_mode, permitted) ==
    IF file_mode \in Modes
    THEN LET r == SysAccess(s, file_path, file_mode, permitted) IN [s |-> r.s, ret |-> r.ret = 0]
    ELSE [s |-> s, ret |-> FALSE]

\* File::Access
Access(s, f, file_mode, permitted) == AccessPath(s, s.p[f], file_mode, permitted)

\* ------------------------------------------------- ckcore::convert helpers
\* An integer of 32 or 64 bits is its 4 or 8 bytes, most significant first
\* (two's complement for the signed types); a text is a sequence of character
\* codes.
Char0 == 48
CharMinus == 45

RECURSIVE Full(_)
Full(n) == IF n <= 0 THEN <<>> ELSE <<255>> \o Full(n - 1)

IsNegative(x) == x[1] >= 128

IsZero(x) == \A i \in 1..Len(x) : x[i] = 0

\* quotient and remainder of the unsigned x by 10, by long division
RECURSIVE LongDiv10(_, _, _, _)
LongDiv10(x, i, r, q) ==
    IF i > Len(x) THEN [q |-> q, r |-> r]
    ELSE LET r2 == 256 * r + x[i]
         IN LongDiv10(x, i + 1, r2 % 10, Append(q, r2 \div 10))

\* x + 1 modulo 2^w
RECURSIVE Inc(_)
Inc(x) ==
    IF x = <<>> THEN <<>>
    ELSE LET n == Len(x) IN
         IF x[n] < 255 THEN SubSeq(x, 1, n - 1) \o <<x[n] + 1>>
         ELSE Inc(SubSeq(x, 1, n - 1)) \o <<0>>

RECURSIVE Not(_)
Not(x) == IF x = <<>> THEN <<>> ELSE <<255 - Head(x)>> \o Not(Tail(x))

\* -x modulo 2^w: the magnitude of a negative value, as an unsigned value
Negate(x) == Inc(Not(x))

\* the decimal digits of the unsigned x as characters, none for zero
RECURSIVE DigitChars(_)
DigitChars(x) ==
    IF IsZero(x) THEN <<>>
    ELSE LET d == LongDiv10(x, 1, 0, <<>>) IN Append(DigitChars(d.q), Char0 + d.r)

\* unsigned value to decimal text
ui_to_str(value) == IF IsZero(value) THEN <<Char0>> ELSE DigitChars(value)

\* signed to text where the magnitude is taken by negating in the signed
\* type: the most negative value stays negative and yields no digit
i_to_str_SignedNegate(value) ==
    IF IsNegative(value)
    THEN <<CharMinus>> \o (IF IsNegative(Negate(value)) THEN <<>> ELSE DigitChars(Negate(value)))
    ELSE ui_to_str(value)

\* signed value to decimal text
i_to_str(value) ==
    IF IsNegative(value) THEN <<CharMinus>> \o DigitChars(Negate(value))
    ELSE ui_to_str(value)

i32_to_str2(value) == i_to_str(value)
ui32_to_str2(value) == ui_to_str(value)
i64_to_str2(value) == i_to_str(value)
ui64_to_str2(value) == ui_to_str(value)
b_to_str(value) == IF value THEN <<Char0 + 1>> ELSE <<Char0>>

\* ------------------------------------------------------ calls (actions)
Apply(s) ==
    /\ dir' = s.dir
    /\ data' = s.data
    /\ fdt' = s.fdt
    /\ file_handle_' = s.h
    /\ file_path_' = s.p
    /\ holds' = s.holds

\* buffers of 1..n bytes with values 1..b
Bufs(n, b) == UNION {[1..m -> 1..b] : m \in 1..n}

\* no file longer than cap, no position beyond cap
Within(cap) ==
    /\ \A i \in Inos : Len(data[i]) <= cap
    /\ \A fd \in Fds : fdt[fd].pos <= cap

\* the record of a call: who, what, with which argument, whether the File had
\* a handle when called, the result (ok for bool, n for tint64, buf for read)
\* and the OS calls it made
Call(op, f, arg, ok, n, buf, sys) ==
    [op |-> op, f |-> f, arg |-> arg,
     had |-> IF f \in Files THEN file_handle_[f] # NoHandle ELSE FALSE,
     ok |-> ok, n |-> n, buf |-> buf, sys |-> sys]

NoCall == [op |-> "none", f |-> "static", arg |-> "", had |-> FALSE, ok |-> FALSE, n |-> 0,
           buf |-> <<>>, sys |-> <<>>]

\* what the caller has seen since the last open() call: what that open()
\* returned, whether a close() was called while test() was true, whether a
\* close() has returned true, whether a remove() has returned true
NoHist == [openRet |-> FALSE, closeCalled |-> FALSE, closed |-> FALSE, removed |-> FALSE]

\* File::~File that does not call Close()
Destruct_NoClose(f, c) ==
    /\ alive[f]
    /\ fdt' = fdt
    /\ last' = Call("destruct", f, "", FALSE, 0, <<>>, <<>>)
    /\ alive' = [alive EXCEPT ![f] = FALSE]
    /\ file_handle_' = [file_handle_ EXCEPT ![f] = NoHandle]
    /\ holds' = [holds EXCEPT ![f] = FALSE]
    /\ hist' = [hist EXCEPT ![f] = NoHist]
    /\ UNCHANGED <<dir, data, file_path_>>

\* File::~File; the object is gone afterwards
Destruct(f, c) ==
    /\ alive[f]
    /\ LET r == Close(St, f, c) IN
        /\ dir' = r.s.dir
        /\ data' = r.s.data
        /\ fdt' = r.s.fdt
        /\ last' = Call("destruct", f, "", r.ret, 0, <<>>, r.s.sys)
    /\ alive' = [alive EXCEPT ![f] = FALSE]
    /\ file_handle_' = [file_handle_ EXCEPT ![f] = NoHandle]
    /\ holds' = [holds EXCEPT ![f] = FALSE]
    /\ hist' = [hist EXCEPT ![f] = NoHist]
    /\ UNCHANGED file_path_

DoOpen(f, file_mode, c, denied) ==
    /\ alive[f]
    /\ LET r == Open(St, f, file_mode, c, denied) IN
        /\ Apply(r.s)
        /\ last' = Call("open", f, file_mode, r.ret, 0, <<>>, r.s.sys)
        /\ hist' = [hist EXCEPT ![f] = [NoHist EXCEPT !.openRet = r.ret]]
    /\ UNCHANGED alive

DoClose(f, c) ==
    /\ alive[f]
    /\ LET r == Close(St, f, c) IN
        /\ Apply(r.s)
        /\ last' = Call("close", f, "", r.ret, 0, <<>>, r.s.sys)
        /\ hist' = [hist EXCEPT ![f].closed = @ \/ r.ret,
                                ![f].closeCalled = @ \/ file_handle_[f] # NoHandle]
    /\ UNCHANGED alive

DoTest(f) ==
    /\ alive[f]
    /\ last' = Call("test", f, "", Test(St, f), 0, <<>>, <<>>)
    /\ UNCHANGED <<dir, data, fdt, file_handle_, file_path_, holds, alive, hist>>

DoSeek(f, distance, whence) ==
    /\ alive[f]
    /\ LET r == Seek(St, f, distance, whence) IN
        /\ Apply(r.s)
        /\ last' = Call("seek", f, whence, r.ret # -1, r.ret, <<>>, r.s.sys)
    /\ UNCHANGED <<alive, hist>>

DoTell(f) ==
    /\ alive[f]
    /\ LET r == Tell(St, f) IN
        /\ Apply(r.s)
        /\ last' = Call("tell", f, "", r.ret # -1, r.ret, <<>>, r.s.sys)
    /\ UNCHANGED <<alive, hist>>

DoRead(f, count, k) ==
    /\ alive[f]
    /\ LET r == Read(St, f, count, k) IN
        /\ Apply(r.s)
        /\ last' = Call("read", f, "", r.ret # -1, r.ret, r.buf, r.s.sys)
    /\ UNCHANGED <<alive, hist>>

DoWrite(f, buffer, k) ==
    /\ alive[f]
    /\ LET r == Write(St, f, buffer, Len(buffer), k) IN
        /\ Apply(r.s)
        /\ last' = Call("write", f, "", r.ret # -1, r.ret, <<>>, r.s.sys)
    /\ UNCHANGED <<alive, hist>>

DoExist(f) ==
    /\ alive[f]
    /\ LET r == Exist(St, f) IN
        /\ Apply(r.s)
        /\ last' = Call("exist", f, "", r.ret, 0, <<>>, r.s.sys)
    /\ UNCHANGED <<alive, hist>>

DoRemove(f, c) ==
    /\ alive[f]
    /\ LET r == Remove(St, f, c) IN
        /\ Apply(r.s)
        /\ last' = Call("remove", f, "", r.ret, 0, <<>>, r.s.sys)
        /\ hist' = [hist EXCEPT ![f].removed = @ \/ r.ret]
    /\ UNCHANGED alive

DoRename(f, new_file_path, c) ==
    /\ alive[f]
    /\ LET r == Rename(St, f, new_file_path, c) IN
        /\ Apply(r.s)
        /\ last' = Call("rename", f, new_file_path, r.ret, 0, <<>>, r.s.sys)
    /\ UNCHANGED <<alive, hist>>

DoSize(f) ==
    /\ alive[f]
    /\ LET r == Size(St, f) IN
        /\ Apply(r.s)
        /\ last' = Call("size", f, "", r.ret # -1, r.ret, <<>>, r.s.sys)
    /\ UNCHANGED <<alive, hist>>

DoExistPath(file_path) ==
    /\ LET r == ExistPath(St, file_path) IN
        /\ Apply(r.s)
        /\ last' = Call("exist", "static", file_path, r.ret, 0, <<>>, r.s.sys)
    /\ UNCHANGED <<alive, hist>>

DoRemovePath(file_path) ==
    /\ LET r == RemovePath(St, file_path) IN
        /\ Apply(r.s)
        /\ last' = Call("remove", "static", file_path, r.ret, 0, <<>>, r.s.sys)
    /\ UNCHANGED <<alive, hist>>

DoRenamePath(old_file_path, new_file_path) ==
    /\ LET r == RenamePath(St, old_file_path, new_file_path) IN
        /\ Apply(r.s)
        /\ last' = Call("rename", "static", new_file_path, r.ret, 0, <<>>, r.s.sys)
    /\ UNCHANGED <<alive, hist>>

DoSizePath(file_path) ==
    /\ LET r == SizePath(St, file_path) IN
        /\ Apply(r.s)
        /\ last' = Call("size", "static", file_path, r.ret # -1, r.ret, <<>>, r.s.sys)
    /\ UNCHANGED <<alive, hist>>

DoTime(f, lt) ==
    /\ alive[f]
    /\ LET r == Time(St, f, lt) IN
        /\ Apply(r.s)
        /\ last' = Call("time", f, "", r.ret, r.ino, <<>>, r.s.sys)
    /\ UNCHANGED <<alive, hist>>

DoAccess(f, file_mode, permitted) ==
    /\ alive[f]
    /\ LET r == Access(St, f, file_mode, permitted) IN
        /\ Apply(r.s)
        /\ last' = Call("access", f, file_mode, r.ret, 0, <<>>, r.s.sys)
    /\ UNCHANGED <<alive, hist>>

DoTimePath(file_path, lt) ==
    /\ LET r == TimePath(St, file_path, lt) IN
        /\ Apply(r.s)
        /\ last' = Call("time", "static", file_path, r.ret, r.ino, <<>>, r.s.sys)
    /\ UNCHANGED <<alive, hist>>

DoAccessPath(file_path, file_mode, permitted) ==
    /\ LET r == AccessPath(St, file_path, file_mode, permitted) IN
        /\ Apply(r.s)
        /\ last' = Call("access", "static", file_path, r.ret, 0, <<>>, r.s.sys)
    /\ UNCHANGED <<alive, hist>>

\* ------------------------------------------------------- specifications
\* Spec: one File, from its construction (File::File records the path and sets
\* the handle absent: Init) to its destruction, and the path-only static
\* operations, which also stand for whatever else changes the filesystem
\* between the File's calls and after its destruction.
Own == {"f1"}
Idle == [at |-> "idle", B |-> <<>>, ok |-> TRUE, wrote |-> 0, n |-> 0, buf |-> <<>>]

Init ==
    /\ dir = [q \in Paths |-> NoIno]
    /\ data = [i \in Inos |-> <<>>]
    /\ fdt = [fd \in Fds |-> ClosedFd]
    /\ file_handle_ = [f \in Files |-> NoHandle]
    /\ file_path_ \in {g \in [Files -> Paths] : \A f \in Files \ Own : g[f] = "p1"}
    /\ alive = [f \in Files |-> f \in Own]
    /\ holds = [f \in Files |-> FALSE]
    /\ hist = [f \in Files |-> NoHist]
    /\ last = NoCall
    /\ pc = Idle

Next ==
    /\ pc' = pc
    /\ \/ \E f \in Own, c \in CloseOutcomes : Destruct(f, c)
       \/ \E f \in Own, m \in Modes, c \in CloseOutcomes, denied \in BOOLEAN : DoOpen(f, m, c, denied)
       \/ \E f \in Own, c \in CloseOutcomes : DoClose(f, c)
       \/ \E f \in Own : DoTest(f)
       \/ \E f \in Own, d \in (-MaxLen)..MaxLen, w \in Whences \cup {"UNKNOWN"} :
             DoSeek(f, d, w) /\ Within(MaxLen)'
       \/ \E f \in Own : DoTell(f)
       \/ \E f \in Own, count \in 1..MaxLen, k \in {-1} \cup 1..MaxLen : DoRead(f, count, k)
       \/ \E f \in Own, b \in Bufs(MaxLen, 1), k \in {-1} \cup 1..MaxLen :
             DoWrite(f, b, k) /\ Within(MaxLen)'
       \/ \E f \in Own : DoExist(f)
       \/ \E f \in Own, c \in CloseOutcomes : DoRemove(f, c)
       \/ \E f \in Own, q \in Paths, c \in CloseOutcomes : DoRename(f, q, c)
       \/ \E f \in Own : DoSize(f)
       \/ \E q \in Paths : DoExistPath(q)
       \/ \E q \in Paths : DoRemovePath(q)
       \/ \E q1, q2 \in Paths : DoRenamePath(q1, q2)
       \/ \E q \in Paths : DoSizePath(q)
       \/ \E f \in Own, lt \in BOOLEAN : DoTime(f, lt)
       \/ \E f \in Own, m \in Modes, permitted \in BOOLEAN : DoAccess(f, m, permitted)
       \/ \E q \in Paths, lt \in BOOLEAN : DoTimePath(q, lt)
       \/ \E q \in Paths, m \in Modes, permitted \in BOOLEAN : DoAccessPath(q, m, permitted)

Spec == Init /\ [][Next]_vars

\* SpecRT: the round trip as one caller's script on one File, nothing else
\* running: open(WRITE) on an absent or empty file, write(B, n), close(),
\* open(READ), read(buf, n), read(buf, 1). pc.ok: no call so far returned its
\* failure value; pc.wrote, pc.n, pc.buf: what write and the first read returned.
InitRT ==
    /\ \/ dir = [q \in Paths |-> NoIno]
       \/ dir = [q \in Paths |-> IF q = "p1" THEN 1 ELSE NoIno]
    /\ data = [i \in Inos |-> <<>>]
    /\ fdt = [fd \in Fds |-> ClosedFd]
    /\ file_handle_ = [f \in Files |-> NoHandle]
    /\ file_path_ = [f \in Files |-> "p1"]
    /\ alive = [f \in Files |-> f \in Own]
    /\ holds = [f \in Files |-> FALSE]
    /\ hist = [f \in Files |-> NoHist]
    /\ last = NoCall
    /\ pc \in {[at |-> "start", B |-> b, ok |-> TRUE, wrote |-> 0, n |-> 0, buf |-> <<>>] :
                  b \in Bufs(MaxBuf, MaxByte)}

RTOpenWrite ==
    /\ pc.at = "start"
    /\ \E c \in CloseOutcomes, denied \in BOOLEAN : DoOpen("f1", "WRITE", c, denied)
    /\ pc' = [pc EXCEPT !.at = "opened", !.ok = last'.ok]

RTWrite ==
    /\ pc.at = "opened"
    /\ \E k \in {-1} \cup 1..MaxBuf : DoWrite("f1", pc.B, k)
    /\ pc' = [pc EXCEPT !.at = "written", !.ok = pc.ok /\ last'.ok, !.wrote = last'.n]

RTClose ==
    /\ pc.at = "written"
    /\ \E c \in CloseOutcomes : DoClose("f1", c)
    /\ pc' = [pc EXCEPT !.at = "closed", !.ok = pc.ok /\ last'.ok]

RTOpenRead ==
    /\ pc.at = "closed"
    /\ \E c \in CloseOutcomes, denied \in BOOLEAN : DoOpen("f1", "READ", c, denied)
    /\ pc' = [pc EXCEPT !.at = "reopened", !.ok = pc.ok /\ last'.ok]

RTRead ==
    /\ pc.at = "reopened"
    /\ \E k \in {-1} \cup 1..MaxBuf : DoRead("f1", Len(pc.B), k)
    /\ pc' = [pc EXCEPT !.at = "read", !.ok = pc.ok /\ last'.ok, !.n = last'.n, !.buf = last'.buf]

RTReadEof ==
    /\ pc.at = "read"
    /\ \E k \in {-1} \cup 1..MaxBuf : DoRead("f1", 1, k)
    /\ pc' = [pc EXCEPT !.at = "done", !.ok = pc.ok /\ last'.ok]

NextRT == RTOpenWrite \/ RTWrite \/ RTClose \/ RTOpenRead \/ RTRead \/ RTReadEof

SpecRT == InitRT /\ [][NextRT]_vars

\* SpecRace: File::Rename of File f1 at the grain of its OS calls (the
\* Exist() check, the Close(), the rename(2)), interleaved with the calls of
\* another actor: File f2 bound to the other path, and the static remove.
\* pc.at: where f1 is inside Rename; pc.new: the new_file_path it was given.
NotRenaming == [at |-> "idle", new |-> ""]

InitRace ==
    /\ dir = [q \in Paths |-> NoIno]
    /\ data = [i \in Inos |-> <<>>]
    /\ fdt = [fd \in Fds |-> ClosedFd]
    /\ file_handle_ = [f \in Files |-> NoHandle]
    /\ file_path_ = [f \in Files |-> IF f = "f1" THEN "p1" ELSE "p2"]
    /\ alive = [f \in Files |-> TRUE]
    /\ holds = [f \in Files |-> FALSE]
    /\ hist = [f \in Files |-> NoHist]
    /\ last = NoCall
    /\ pc = NotRenaming

\* File::Rename, lines 215-216: the Exist(new_file_path) check
RenameCheck(f, new_file_path) ==
    /\ pc.at = "idle"
    /\ LET e == ExistPath(St, new_file_path) IN
        /\ Apply(e.s)
        /\ IF e.ret
           THEN /\ last' = Call("rename", f, new_file_path, FALSE, 0, <<>>, e.s.sys)
                /\ pc' = pc
           ELSE /\ last' = last
                /\ pc' = [at |-> "checked", new |-> new_file_path]
    /\ UNCHANGED <<alive, hist>>

\* File::Rename, line 218: Close()
RenameClose(f, c) ==
    /\ pc.at = "checked"
    /\ Apply(Close(St, f, c).s)
    /\ pc' = [pc EXCEPT !.at = "closed"]
    /\ UNCHANGED <<alive, hist, last>>

\* File::Rename, lines 220-226: rename(2) and the new path
RenameOs(f) ==
    /\ pc.at = "closed"
    /\ LET r == SysRename(St, file_path_[f], pc.new) IN
        /\ Apply(IF r.ret = 0 THEN [r.s EXCEPT !.p[f] = pc.new] ELSE r.s)
        /\ last' = Call("rename", f, pc.new, r.ret = 0, 0, <<>>, r.s.sys)
    /\ pc' = NotRenaming
    /\ UNCHANGED <<alive, hist>>

\* a whole call of f1 outside Rename
RaceOwnOpen ==
    /\ pc.at = "idle"
    /\ \E m \in Modes, c \in CloseOutcomes : DoOpen("f1", m, c, FALSE)
    /\ UNCHANGED <<pc>>

\* the other actor's calls, at any time
RaceOtherOpen ==
    /\ \E c \in CloseOutcomes : DoOpen("f2", "WRITE", c, FALSE)
    /\ UNCHANGED <<pc>>

RaceOtherWrite ==
    /\ \E b \in Bufs(MaxLen, 1) : DoWrite("f2", b, Len(b)) /\ Within(MaxLen)'
    /\ UNCHANGED <<pc>>

RaceOtherClose ==
    /\ \E c \in CloseOutcomes : DoClose("f2", c)
    /\ UNCHANGED <<pc>>

RaceOtherRemove ==
    /\ \E q \in Paths : DoRemovePath(q)
    /\ UNCHANGED <<pc>>

NextRace ==
    \/ \E q \in Paths : RenameCheck("f1", q)
    \/ \E c \in CloseOutcomes : RenameClose("f1", c)
    \/ RenameOs("f1")
    \/ RaceOwnOpen
    \/ RaceOtherOpen
    \/ RaceOtherWrite
    \/ RaceOtherClose
    \/ RaceOtherRemove

SpecRace == InitRace /\ [][NextRace]_vars

\* SpecConv: the conversion helpers applied to values of each type. The
\* values: zero, every single bit, every run of low bits and every run of
\* high bits, which hold 0, 1, -1 and the extremes of the type.
Kinds == [i32 |-> 4, ui32 |-> 4, i64 |-> 8, ui64 |-> 8]
Pow2 == <<1, 2, 4, 8, 16, 32, 64, 128>>

Values(n) ==
    {Zeros(n)}
        \cup {Zeros(n - 1 - k) \o <<2 * Pow2[j] - 1>> \o Full(k) : k \in 0..(n - 1), j \in 1..8}
        \cup {Full(k) \o <<256 - Pow2[j]>> \o Zeros(n - 1 - k) : k \in 0..(n - 1), j \in 1..8}
        \cup {Zeros(k) \o <<Pow2[j]>> \o Zeros(n - 1 - k) : k \in 0..(n - 1), j \in 1..8}

InitConv ==
    /\ dir = [q \in Paths |-> NoIno]
    /\ data = [i \in Inos |-> <<>>]
    /\ fdt = [fd \in Fds |-> ClosedFd]
    /\ file_handle_ = [f \in Files |-> NoHandle]
    /\ file_path_ = [f \in Files |-> "p1"]
    /\ alive = [f \in Files |-> FALSE]
    /\ holds = [f \in Files |-> FALSE]
    /\ hist = [f \in Files |-> NoHist]
    /\ last = NoCall
    /\ \/ \E kind \in DOMAIN Kinds : \E v \in Values(Kinds[kind]) :
             pc = [at |-> "in", kind |-> kind, value |-> v, text |-> <<>>]
       \/ \E b \in BOOLEAN : pc = [at |-> "in", kind |-> "b", value |-> b, text |-> <<>>]

ConvInt ==
    /\ pc.at = "in" /\ pc.kind \in DOMAIN Kinds
    /\ pc' = [pc EXCEPT !.at = "out",
                        !.text = CASE pc.kind = "i32" -> i32_to_str2(pc.value)
                                   [] pc.kind = "ui32" -> ui32_to_str2(pc.value)
                                   [] pc.kind = "i64" -> i64_to_str2(pc.value)
                                   [] pc.kind = "ui64" -> ui64_to_str2(pc.value)]
    /\ UNCHANGED <<dir, data, fdt, file_handle_, file_path_, alive, holds, hist, last>>

ConvBool ==
    /\ pc.at = "in" /\ pc.kind = "b"
    /\ pc' = [pc EXCEPT !.at = "out", !.text = b_to_str(pc.value)]
    /\ UNCHANGED <<dir, data, fdt, file_handle_, file_path_, alive, holds, hist, last>>

NextConv == ConvInt \/ ConvBool

SpecConv == InitConv /\ [][NextConv]_vars

\* SpecOW: one caller opens File f1 on p1, where a file of some content
\* exists or none does, in either mode, and after an open(WRITE) that
\* returned true writes a buffer. pc.existed, pc.old: the file before the
\* open; pc.mode, pc.ok: the open; pc.B, pc.n: the write and what it returned.
InitOW ==
    /\ data \in {[i \in Inos |-> IF i = 1 THEN d ELSE <<>>] : d \in {<<>>} \cup Bufs(MaxBuf, MaxByte)}
    /\ \/ dir = [q \in Paths |-> IF q = "p1" THEN 1 ELSE NoIno]
       \/ dir = [q \in Paths |-> NoIno] /\ data[1] = <<>>
    /\ fdt = [fd \in Fds |-> ClosedFd]
    /\ file_handle_ = [f \in Files |-> NoHandle]
    /\ file_path_ = [f \in Files |-> "p1"]
    /\ alive = [f \in Files |-> f \in Own]
    /\ holds = [f \in Files |-> FALSE]
    /\ hist = [f \in Files |-> NoHist]
    /\ last = NoCall
    /\ pc = [at |-> "start", existed |-> dir["p1"] # NoIno, old |-> data[1],
             mode |-> "READ", ok |-> FALSE, B |-> <<>>, n |-> 0]

OWOpen ==
    /\ pc.at = "start"
    /\ \E m \in Modes, c \in CloseOutcomes, denied \in BOOLEAN :
          /\ DoOpen("f1", m, c, denied)
          /\ pc' = [pc EXCEPT !.at = "opened", !.mode = m, !.ok = last'.ok]

OWWrite ==
    /\ pc.at = "opened" /\ pc.ok /\ pc.mode = "WRITE"
    /\ \E b \in Bufs(MaxBuf, MaxByte), k \in {-1} \cup 1..MaxBuf :
          /\ DoWrite("f1", b, k)
          /\ pc' = [pc EXCEPT !.at = "written", !.B = b, !.n = last'.n]

NextOW == OWOpen \/ OWWrite

SpecOW == InitOW /\ [][NextOW]_vars

\* SpecTwo: two Files, bound to the same path or to different ones, each
\* making whole calls in any order, and the static remove and rename; runs
\* of up to MaxCalls calls (pc.calls counts them).
InitTwo ==
    /\ dir = [q \in Paths |-> NoIno]
    /\ data = [i \in Inos |-> <<>>]
    /\ fdt = [fd \in Fds |-> ClosedFd]
    /\ file_handle_ = [f \in Files |-> NoHandle]
    /\ file_path_ \in {g \in [Files -> Paths] : g["f1"] = "p1"}
    /\ alive = [f \in Files |-> TRUE]
    /\ holds = [f \in Files |-> FALSE]
    /\ hist = [f \in Files |-> NoHist]
    /\ last = NoCall
    /\ pc = [calls |-> 0]

NextTwo ==
    /\ pc.calls < MaxCalls
    /\ pc' = [calls |-> pc.calls + 1]
    /\ \/ \E f \in Files, c \in CloseOutcomes : Destruct(f, c)
       \/ \E f \in Files, m \in Modes, c \in CloseOutcomes : DoOpen(f, m, c, FALSE)
       \/ \E f \in Files, c \in CloseOutcomes : DoClose(f, c)
       \/ \E f \in Files, d \in (-MaxLen)..MaxLen, w \in Whences : DoSeek(f, d, w) /\ Within(MaxLen)'
       \/ \E f \in Files : DoRead(f, MaxLen, MaxLen)
       \/ \E f \in Files, b \in Bufs(MaxLen, 1) : DoWrite(f, b, Len(b)) /\ Within(MaxLen)'
       \/ \E f \in Files, c \in CloseOutcomes : DoRemove(f, c)
       \/ \E f \in Files, q \in Paths, c \in CloseOutcomes : DoRename(f, q, c)
       \/ \E f \in Files : DoSize(f)
       \/ \E q \in Paths : DoRemovePath(q)
       \/ \E q1, q2 \in Paths : DoRenamePath(q1, q2)

SpecTwo == InitTwo /\ [][NextTwo]_vars

\* ---------------------------------------------------------------- claims
CloseOk == <<[call |-> "close", ok |-> TRUE]>>
CloseFailed == <<[call |-> "close", ok |-> FALSE]>>
StatOk == <<[call |-> "stat", ok |-> TRUE]>>

\* C1 as stated: test() is true iff the most recent open() call returned true
\* and no close() or remove() call after it has returned true.
C1_TestIffLastOpenOkAndNoCloseOrRemove ==
    \A f \in Files : alive[f] =>
        (Test(St, f) <=> (hist[f].openRet /\ ~hist[f].closed /\ ~hist[f].removed))

\* C1 amended: test() is true iff open() has acquired a handle and no Close()
\* has returned true since, whether it was called directly or from inside
\* open(), remove() or rename().
C1_TestIffHandleHeld ==
    \A f \in Files : alive[f] => (Test(St, f) <=> holds[f])

\* C1 witness: a rename() has closed the handle of a File whose last open()
\* returned true and on which no close() or remove() has returned true.
C1_Witness ==
    /\ last.op = "rename" /\ last.f \in Files /\ last.had
    /\ ~Test(St, last.f)
    /\ hist[last.f].openRet /\ ~hist[last.f].closed /\ ~hist[last.f].removed

\* the descriptors open at the OS that File f acquired
OwnOpen(f) == {fd \in Fds : fdt[fd].open /\ fdt[fd].owner = f}

\* C2: a File has at most one of the descriptors it acquired open at the OS,
\* and if it has one, that is the handle it stores.
C2_AtMostOneHandle ==
    \A f \in Files : Cardinality(OwnOpen(f)) <= 1 /\ (OwnOpen(f) # {} => OwnOpen(f) = {file_handle_[f]})

\* C2 witness: open() on a File that held a handle has closed it and acquired
\* a new one.
C2_Witness ==
    /\ last.op = "open" /\ last.had /\ last.ok
    /\ Len(last.sys) = 2 /\ last.sys[1] = [call |-> "close", ok |-> TRUE]
    /\ OwnOpen(last.f) = {file_handle_[last.f]}

\* C3: a rename (instance or static) onto a path where a file exists returns
\* false and leaves the directory and every file's contents as they were.
C3_RenameNoOverwrite ==
    [][(last'.op = "rename" /\ dir[last'.arg] # NoIno)
          => (~last'.ok /\ dir' = dir /\ data' = data)]_vars

\* C3 witness: an instance rename was refused because its target exists, and
\* source and target are two different existing files.
C3_Witness ==
    /\ last.op = "rename" /\ last.f \in Files /\ ~last.ok /\ last.sys = StatOk
    /\ dir[last.arg] # NoIno /\ dir[file_path_[last.f]] # NoIno
    /\ dir[last.arg] # dir[file_path_[last.f]]
\* C4 as stated: after a rename() on a File with an open handle was refused
\* because a file exists at the new path, it has returned false and test()
\* is false.
C4_RefusedRenameClosesHandle ==
    (last.op = "rename" /\ last.f \in Files /\ last.had /\ last.sys = StatOk)
        => (~last.ok /\ ~Test(St, last.f))

\* C5 as stated: the first close() on an open File returns true, and every
\* later close() with no open() in between returns false.
C5_FirstCloseTrueLaterFalse ==
    [][\A f \in Files : (last'.op = "close" /\ last'.f = f) =>
          /\ (last'.had /\ ~hist[f].closeCalled) => last'.ok
          /\ hist[f].closeCalled => ~last'.ok]_vars

\* C5 amended: close() returns true exactly when the File holds a handle and
\* the OS close succeeds; once a close() has returned true, every later
\* close() with no open() in between returns false.
C5_CloseTrueIffOsCloseOk ==
    [][\A f \in Files : (last'.op = "close" /\ last'.f = f) =>
          /\ last'.ok <=> (last'.had /\ last'.sys = CloseOk)
          /\ hist[f].closed => ~last'.ok]_vars

\* C5 witness: a close() has returned false on a File on which an earlier
\* close() returned true, with no open() in between.
C5_Witness ==
    /\ last.op = "close" /\ last.f \in Files /\ ~last.ok /\ ~last.had
    /\ hist[last.f].closed /\ hist[last.f].openRet

\* C6: when open() is called on a File that holds a handle and the OS close
\* of it fails, open() returns false, makes no further OS call (no open(2)),
\* and the File stores the same handle as before.
C6_OpenAbortsWhenCloseFails ==
    [][\A f \in Files :
          (last'.op = "open" /\ last'.f = f /\ last'.had
              /\ Len(last'.sys) >= 1 /\ last'.sys[1] = [call |-> "close", ok |-> FALSE])
          => /\ ~last'.ok
             /\ last'.sys = CloseFailed
             /\ file_handle_'[f] = file_handle_[f]
             /\ file_handle_'[f] # NoHandle]_vars

\* C6 witness: an open() on a File holding a handle has returned false after
\* its OS close failed, and test() is still true.
C6_Witness ==
    /\ last.op = "open" /\ last.f \in Files /\ last.had /\ ~last.ok
    /\ last.sys = CloseFailed
    /\ Test(St, last.f)

\* C7: once a File is destroyed, no descriptor it acquired is still open at
\* the OS, whether it held a handle or not and whether its close reported
\* success or an error.
C7_DestructionReleasesHandle ==
    \A f \in Files : ~alive[f] =>
        \A fd \in Fds : ~(fdt[fd].open /\ fdt[fd].owner \in {f, Dead})

\* C7 witness: a File holding a handle was destroyed, its close reported an
\* error, and no descriptor is open.
C7_Witness ==
    /\ last.op = "destruct" /\ last.had /\ ~last.ok /\ last.sys = CloseFailed
    /\ ~alive[last.f]
    /\ \A fd \in Fds : ~fdt[fd].open

\* C8 as stated: the round trip ends with buf = B and a further read
\* returning 0, no call having returned its failure value.
C8_RoundTrip ==
    (pc.at = "done" /\ pc.ok) => (pc.buf = pc.B /\ last.n = 0)

\* C8 amended: if no call of the round trip returns its failure value, write
\* returns n and read returns n, then buf = B and a further read returns 0.
C8_RoundTripWhenFullyTransferred ==
    (pc.at = "done" /\ pc.ok /\ pc.wrote = Len(pc.B) /\ pc.n = Len(pc.B))
        => (pc.buf = pc.B /\ last.n = 0)

\* C8 witness: a round trip of a buffer of two different bytes has ended,
\* fully written and fully read.
C8_Witness ==
    /\ pc.at = "done" /\ pc.ok /\ pc.wrote = Len(pc.B) /\ pc.n = Len(pc.B)
    /\ Len(pc.B) >= 2 /\ pc.B[1] # pc.B[2]

\* C9: on a File whose handle is absent, seek, tell, read and write return -1
\* and close returns false, no OS call is made, and the directory, the file
\* contents, the descriptor table (with every position) and the File's path
\* and handle are unchanged.
C9_AbsentHandleNoOsCall ==
    [][(last'.op \in {"seek", "tell", "read", "write", "close"} /\ last'.f \in Files /\ ~last'.had)
          => /\ IF last'.op = "close" THEN ~last'.ok ELSE last'.n = -1
             /\ last'.sys = <<>>
             /\ UNCHANGED <<dir, data, fdt, file_handle_, file_path_>>]_vars

\* C9 witness: a write on a File with no handle has returned -1 while the
\* path names an existing file.
C9_Witness ==
    /\ last.op = "write" /\ last.f \in Files /\ ~last.had /\ last.n = -1
    /\ dir[file_path_[last.f]] # NoIno

\* C10: a File's path changes only by a rename() on that File that returns
\* true, which sets it to the new path; a rename() that returns false and
\* every other call, static ones included, leave it unchanged.
C10_PathChangesOnlyByRename ==
    [][\A f \in Files : (alive[f] /\ alive'[f]) =>
          IF last'.op = "rename" /\ last'.f = f /\ last'.ok
          THEN file_path_'[f] = last'.arg
          ELSE file_path_'[f] = file_path_[f]]_vars

\* C10 witness: a rename() has failed at the OS (the source is gone) with the
\* target absent, and the path is not the one asked for.
C10_Witness ==
    /\ last.op = "rename" /\ last.f \in Files /\ ~last.ok
    /\ Len(last.sys) >= 2 /\ last.sys[Len(last.sys)] = [call |-> "rename", ok |-> FALSE]
    /\ file_path_[last.f] # last.arg

\* C11: on a File with no handle, exist(), size(), access() and time() return
\* what the static operations return for the File's path, in every
\* filesystem state, and make the same OS calls.
C11_InstanceEqualsStatic ==
    \A f \in Files : (alive[f] /\ file_handle_[f] = NoHandle) =>
        /\ Exist(St, f) = ExistPath(St, file_path_[f])
        /\ Size(St, f) = SizePath(St, file_path_[f])
        /\ \A m \in Modes, permitted \in BOOLEAN :
              Access(St, f, m, permitted) = AccessPath(St, file_path_[f], m, permitted)
        /\ \A lt \in BOOLEAN : Time(St, f, lt) = TimePath(St, file_path_[f], lt)

\* C11 witness: size() on a File with no handle has returned the length of
\* the non-empty file at its path, and time() would find it too.
C11_Witness ==
    /\ last.op = "size" /\ last.f \in Files /\ ~last.had /\ last.n >= 1
    /\ last.n = SizePath(St, file_path_[last.f]).ret
    /\ Time(St, last.f, TRUE).ret

\* C12 as stated: in every interleaving of rename(new_path) with the calls of
\* another actor, a file that exists at new_path when the OS rename is
\* performed is not replaced, and the directory and the contents of every
\* file stay as they were.
C12_RenameNeverReplacesInAnyInterleaving ==
    [][(pc.at = "closed" /\ pc'.at = "idle" /\ dir[pc.new] # NoIno /\ pc.new # file_path_["f1"])
          => (dir'[pc.new] = dir[pc.new] /\ dir' = dir /\ data' = data)]_vars

\* C13: in every reachable state, tell() returns what seek(0, CURRENT)
\* returns, which is the position of the open handle; neither call changes
\* any file position; with no handle both return -1.
C13_TellEqualsSeekZeroCurrent ==
    \A f \in Files : alive[f] =>
        LET tl == Tell(St, f)
            sk == Seek(St, f, 0, "CURRENT")
        IN /\ tl.ret = sk.ret
           /\ tl.s.fdt = fdt /\ sk.s.fdt = fdt
           /\ file_handle_[f] = NoHandle => (tl.ret = -1 /\ sk.ret = -1)
           /\ IsOpen(St, file_handle_[f]) => tl.ret = fdt[file_handle_[f]].pos

\* C13 witness: tell() on an open File has returned a position other than 0,
\* and the handle is still at that position.
C13_Witness ==
    /\ last.op = "tell" /\ last.f \in Files /\ last.had /\ last.n >= 1
    /\ IsOpen(St, file_handle_[last.f])
    /\ fdt[file_handle_[last.f]].pos = last.n

\* reading a decimal text back into n bytes: 10 * x + d modulo 2^(8n), digit by digit
RECURSIVE MulAdd10(_, _)
MulAdd10(x, c) ==
    IF x = <<>> THEN <<>>
    ELSE LET n == Len(x)
             v == 10 * x[n] + c
         IN MulAdd10(SubSeq(x, 1, n - 1), v \div 256) \o <<v % 256>>

RECURSIVE FromDigits(_, _)
FromDigits(text, acc) ==
    IF text = <<>> THEN acc ELSE FromDigits(Tail(text), MulAdd10(acc, Head(text) - Char0))

ValueOf(text, n) ==
    IF text # <<>> /\ Head(text) = CharMinus THEN Negate(FromDigits(Tail(text), Zeros(n)))
    ELSE FromDigits(text, Zeros(n))

\* decimal text: an optional minus sign, then digits with no leading zero
\* (the single digit 0 for zero), at most 20 of them
IsDecimal(text) ==
    LET ds == IF text # <<>> /\ Head(text) = CharMinus THEN Tail(text) ELSE text
    IN /\ Len(ds) \in 1..20
       /\ \A i \in 1..Len(ds) : ds[i] \in Char0..(Char0 + 9)
       /\ Len(ds) > 1 => ds[1] # Char0
       /\ ds = <<Char0>> => ds = text

\* the text of a sequence of decimal digits
RECURSIVE Text(_)
Text(ds) == IF ds = <<>> THEN <<>> ELSE <<Char0 + Head(ds)>> \o Text(Tail(ds))

\* the extremes of the four integer types and their expected texts
Extremes ==
    { [kind |-> "i32", value |-> <<127>> \o Full(3), text |-> Text(<<2,1,4,7,4,8,3,6,4,7>>)],
      [kind |-> "i32", value |-> <<128>> \o Zeros(3),
       text |-> <<CharMinus>> \o Text(<<2,1,4,7,4,8,3,6,4,8>>)],
      [kind |-> "ui32", value |-> Full(4), text |-> Text(<<4,2,9,4,9,6,7,2,9,5>>)],
      [kind |-> "i64", value |-> <<127>> \o Full(7),
       text |-> Text(<<9,2,2,3,3,7,2,0,3,6,8,5,4,7,7,5,8,0,7>>)],
      [kind |-> "i64", value |-> <<128>> \o Zeros(7),
       text |-> <<CharMinus>> \o Text(<<9,2,2,3,3,7,2,0,3,6,8,5,4,7,7,5,8,0,8>>)],
      [kind |-> "ui64", value |-> Full(8),
       text |-> Text(<<1,8,4,4,6,7,4,4,0,7,3,7,0,9,5,5,1,6,1,5>>)] }

\* C14: the text an integer helper produces is the decimal text of its
\* argument: it is well-formed decimal, negative exactly when the signed
\* argument is, and reads back as the argument; the extremes of the four
\* types give the expected texts; b_to_str gives "0" for false, "1" for true.
C14_ExactDecimalText ==
    pc.at = "out" =>
        IF pc.kind = "b" THEN pc.text = Text(IF pc.value THEN <<1>> ELSE <<0>>)
        ELSE /\ IsDecimal(pc.text)
             /\ ValueOf(pc.text, Kinds[pc.kind]) = pc.value
             /\ (Head(pc.text) = CharMinus) <=> (pc.kind \in {"i32", "i64"} /\ IsNegative(pc.value))
             /\ \A e \in Extremes :
                   (e.kind = pc.kind /\ e.value = pc.value) => pc.text = e.text

\* C14 witness: i64_to_str2 has converted -9223372036854775808.
C14_Witness ==
    /\ pc.at = "out" /\ pc.kind = "i64" /\ pc.value = <<128>> \o Zeros(7)
    /\ pc.text = <<CharMinus>> \o Text(<<9,2,2,3,3,7,2,0,3,6,8,5,4,7,7,5,8,0,8>>)

\* C15: remove() first calls Close() (an OS close exactly when a handle is
\* held) and, whatever that gave, then unlinks the path; it returns true iff
\* the unlink succeeded; after a remove() that returned true no file is at
\* the path, and when the close succeeded test() is false.
C15_RemoveClosesThenUnlinks ==
    [][\A f \in Files : (last'.op = "remove" /\ last'.f = f) =>
          LET sys == last'.sys IN
          /\ IF last'.had
             THEN Len(sys) = 2 /\ sys[1].call = "close" /\ sys[2].call = "unlink"
             ELSE Len(sys) = 1 /\ sys[1].call = "unlink"
          /\ last'.ok <=> sys[Len(sys)].ok
          /\ last'.ok => dir'[file_path_[f]] = NoIno
          /\ (last'.had /\ sys[1].ok) => file_handle_'[f] = NoHandle
          /\ file_path_'[f] = file_path_[f]]_vars

\* C15 witness: a remove() on a File holding a handle has returned true
\* although its close failed.
C15_Witness ==
    /\ last.op = "remove" /\ last.f \in Files /\ last.had /\ last.ok
    /\ last.sys = <<[call |-> "close", ok |-> FALSE], [call |-> "unlink", ok |-> TRUE]>>
    /\ dir[file_path_[last.f]] = NoIno

\* C16: open(WRITE) on an existing file leaves its content and length as they
\* were and positions the handle at offset 0; a write of k bytes that is
\* shorter than the file then replaces the first bytes (as many as write
\* returned) and leaves the rest and the length unchanged; open(WRITE) on an
\* absent path creates an empty file; open(READ) on an absent path returns
\* false and creates nothing.
C16_OpenWriteDoesNotTruncate ==
    LET i == dir["p1"] IN
    /\ (pc.at = "opened" /\ pc.existed) =>
          /\ i # NoIno /\ data[i] = pc.old
          /\ pc.ok => fdt[file_handle_["f1"]].pos = 0
    /\ (pc.at = "opened" /\ ~pc.existed /\ pc.mode = "WRITE") =>
          IF pc.ok THEN i # NoIno /\ data[i] = <<>> ELSE i = NoIno
    /\ (pc.at = "opened" /\ ~pc.existed /\ pc.mode = "READ") =>
          ~pc.ok /\ i = NoIno /\ ~Test(St, "f1")
    /\ (pc.at = "written" /\ pc.existed /\ pc.n >= 0 /\ Len(pc.B) < Len(pc.old)) =>
          /\ Len(data[i]) = Len(pc.old)
          /\ \A j \in 1..Len(pc.old) : data[i][j] = IF j <= pc.n THEN pc.B[j] ELSE pc.old[j]

\* C16 witness: a write of two bytes over an existing file of three has
\* replaced the first two, which were different, and kept the third.
C16_Witness ==
    /\ pc.at = "written" /\ pc.existed /\ Len(pc.old) = 3 /\ Len(pc.B) = 2 /\ pc.n = 2
    /\ pc.B[1] # pc.old[1] /\ pc.B[2] # pc.old[2]
    /\ data[dir["p1"]] = pc.B \o <<pc.old[3]>>

\* C17: size() on a File whose handle is open returns the length of the file
\* the handle refers to and leaves every file position as it was; on a File
\* with no handle it returns the length of the file at its path, or -1 when
\* there is none; it never changes the directory or any content.
C17_SizeKeepsPosition ==
    [][\A f \in Files : (last'.op = "size" /\ last'.f = f) =>
          LET h == file_handle_[f] IN
          /\ UNCHANGED <<dir, data, file_handle_, file_path_>>
          /\ IsOpen(St, h) => (last'.n = Len(data[fdt[h].ino]) /\ fdt' = fdt)
          /\ h = NoHandle =>
                /\ fdt' = fdt
                /\ last'.n = IF dir[file_path_[f]] # NoIno THEN Len(data[dir[file_path_[f]]]) ELSE -1
          /\ (h # NoHandle /\ ~IsOpen(St, h)) => last'.n = -1]_vars

\* C17 witness: size() was called with the position past the end of the
\* file, has returned the length, and the position is where it was.
C17_Witness ==
    /\ last.op = "size" /\ last.f \in Files /\ last.had
    /\ IsOpen(St, file_handle_[last.f])
    /\ last.n = Len(data[fdt[file_handle_[last.f]].ino])
    /\ fdt[file_handle_[last.f]].pos > last.n

\* C18: in every reachable state with the handle open, seek(d, BEGIN) goes to
\* d, seek(d, CURRENT) to the position plus d and seek(d, END) to the file
\* length plus d; when that offset is not negative the seek returns it, the
\* handle is at it and a following tell() returns it; otherwise, and for an
\* unknown whence, the seek returns -1 and no position changes.
C18_SeekArithmetic ==
    \A f \in Files : (alive[f] /\ IsOpen(St, file_handle_[f])) =>
        \A d \in (0 - MaxLen - 1)..(MaxLen + 1), w \in Whences \cup {"UNKNOWN"} :
            LET h == file_handle_[f]
                r == Seek(St, f, d, w)
                target == CASE w = "BEGIN" -> d
                            [] w = "CURRENT" -> fdt[h].pos + d
                            [] w = "END" -> Len(data[fdt[h].ino]) + d
                            [] OTHER -> -1
            IN IF target >= 0
               THEN /\ r.ret = target
                    /\ r.s.fdt = [fdt EXCEPT ![h].pos = target]
                    /\ Tell(r.s, f).ret = target
               ELSE r.ret = -1 /\ r.s.fdt = fdt

\* C18 witness: a seek from the end of a non-empty file has returned a
\* position other than 0, where the handle now is.
C18_Witness ==
    /\ last.op = "seek" /\ last.f \in Files /\ last.had /\ last.arg = "END" /\ last.n >= 1
    /\ IsOpen(St, file_handle_[last.f])
    /\ fdt[file_handle_[last.f]].pos = last.n
    /\ Len(data[fdt[file_handle_[last.f]].ino]) >= 1

\* C19: when open() is called on a File holding a handle, the close of that
\* handle succeeds and the OS open then fails, open() returns false and the
\* File has no handle: test() is false and no descriptor it acquired is open.
C19_FailedReopenLosesHandle ==
    [][\A f \in Files :
          (last'.op = "open" /\ last'.f = f /\ last'.had
              /\ last'.sys = <<[call |-> "close", ok |-> TRUE], [call |-> "open", ok |-> FALSE]>>)
          => /\ ~last'.ok
             /\ file_handle_[f] # NoHandle
             /\ file_handle_'[f] = NoHandle
             /\ \A fd \in Fds : ~(fdt'[fd].open /\ fdt'[fd].owner = f)]_vars

\* C19 witness: open(READ) on a File that held a handle has returned false
\* because no file is at the path any more, and test() is now false.
C19_Witness ==
    /\ last.op = "open" /\ last.f \in Files /\ last.had /\ ~last.ok /\ last.arg = "READ"
    /\ last.sys = <<[call |-> "close", ok |-> TRUE], [call |-> "open", ok |-> FALSE]>>
    /\ dir[file_path_[last.f]] = NoIno
    /\ ~Test(St, last.f)

\* C20: exist() on a File whose handle is open returns true whatever has
\* happened to its path (unlinked, renamed away), also while the static
\* exist on the path returns false; once the File has no handle, exist()
\* returns what the static exist on its path returns.
C20_ExistFollowsHandle ==
    \A f \in Files : alive[f] =>
        /\ IsOpen(St, file_handle_[f]) => Exist(St, f).ret
        /\ ~Test(St, f) => (Exist(St, f).ret <=> dir[file_path_[f]] # NoIno)

\* C20 witness: exist() on an open File has returned true while no file is
\* at its path and the static exist returns false.
C20_Witness ==
    /\ last.op = "exist" /\ last.f \in Files /\ last.had /\ last.ok
    /\ last.sys = <<[call |-> "fstat", ok |-> TRUE]>>
    /\ dir[file_path_[last.f]] = NoIno
    /\ ~ExistPath(St, file_path_[last.f]).ret

\* C21 as stated: no call on one File and no static call changes, for another
\* File that exists before and after it, whether it has a handle, the path
\* it stores, or the position of the descriptor it acquired and holds.
C21_FilesShareOnlyFilesystem ==
    [][\A g \in Files : (last'.f # g /\ alive[g] /\ alive'[g]) =>
          /\ Test(St, g)' <=> Test(St, g)
          /\ file_path_'[g] = file_path_[g]
          /\ (IsOpen(St, file_handle_[g]) /\ fdt[file_handle_[g]].owner = g)
                => fdt'[file_handle_[g]].pos = fdt[file_handle_[g]].pos]_vars

====
